---------------------------- MODULE Spec2Model ----------------------------
(***************************************************************************)
(* TIAS V2 turn orchestration: the decision ledger kept by                 *)
(* validate_action, the turn() sequencer of orchestrator.py and the        *)
(* stages it drives.  Strings are sequences of one-character strings so    *)
(* that strip(), lower(), upper() and split() are computed, not assumed.   *)
(***************************************************************************)
EXTENDS Integers, Sequences, FiniteSets, TLC

VARIABLES
    ledger,      \* decision_log_<date>.json: normalized action key -> ruling
    vpc,         \* per session: position inside validate_action
    vaction,     \* per session: the action string of the running call
    vlog,        \* per session: the dict returned by _load_log (local copy)
    vresult,     \* per session: ActionResult of the last finished call
    vhist,       \* per session: finished calls, in order
    execLog,     \* every run of _execute_update / _execute_fetch, in order
    specs,       \* OrchestratorState.specs: the roster, loaded once
    tier,        \* OrchestratorState.tier
    history,     \* OrchestratorState.history
    debate_turn, \* OrchestratorState.debate_turn
    transcript,  \* the turn blocks commit_log has appended, in call order
    log_file,    \* logs/session_<id>.log: the text of the file
    files,       \* system.txt, the game state report and codex/spec.toml on disk
    system_hash, \* prompt_assemble._system_hash, the module global
    system_seen, \* the text of system.txt as the last load_system_prompt read it
    warnings,    \* the logging.warning calls of load_system_prompt, counted
    prompt,      \* the AssembledPrompt the last prompt_assemble returned
    pc,          \* position inside turn()
    query,       \* turn(): the query and what the similarity oracle says of it
    backend,     \* how the inference backend answers during this turn
    result,      \* turn(): the IdentifyResult
    active,      \* turn(): the tier results that are not blocked
    output_lines,\* turn(): the lines collected for the return value
    flow_type,   \* turn(): the flow after the collapse of a debate
    interruptor, \* turn(): the actor _select_interruptor returned, 0 for None
    fetches,     \* turn(): one FetchResult per active actor
    llm_calls,   \* the llm_call requests made by the running turn
    llm_result,  \* turn(): the LLMResult
    parsed,      \* turn(): the ParsedResponse
    action_result, \* turn(): the ActionResult, NoResult for None
    ret,         \* how the last turn() ended: returned value or raised error
    turn0        \* the session state and the files when the running turn began

ledgerVars == <<ledger, vpc, vaction, vlog, vresult, vhist, execLog>>

promptVars == <<files, system_hash, system_seen, warnings, prompt>>

sessionVars == <<specs, tier, history, debate_turn, transcript, log_file, promptVars>>

stageVars == <<llm_result, parsed, action_result>>

turnVars == <<pc, query, backend, result, active, output_lines, flow_type,
              interruptor, fetches, llm_calls, ret, turn0, stageVars>>

vars == <<ledgerVars, sessionVars, turnVars>>

----------------------------------------------------------------------------
(* Bounds *)

MaxCalls == 2          \* validate_action calls issued per session
MaxDebateTurn == 6     \* turn() is not called again once debate_turn is this high
MaxTurns == 2          \* turns that reach commit_log and write the session log

----------------------------------------------------------------------------
(* Strings *)

Space == " "
Newline == "\n"
Whitespace == {Space, Newline}

UpperLetters == <<"A", "B", "C", "D", "E", "F", "G", "H", "I", "J", "K", "L", "M",
                  "N", "O", "P", "Q", "R", "S", "T", "U", "V", "W", "X", "Y", "Z">>
LowerLetters == <<"a", "b", "c", "d", "e", "f", "g", "h", "i", "j", "k", "l", "m",
                  "n", "o", "p", "q", "r", "s", "t", "u", "v", "w", "x", "y", "z">>

IndexIn(c, letters) ==
    IF \E i \in 1..Len(letters) : letters[i] = c
    THEN CHOOSE i \in 1..Len(letters) : letters[i] = c
    ELSE 0

\* str.lower() / str.upper() on one character
LowerChar(c) ==
    IF IndexIn(c, UpperLetters) > 0 THEN LowerLetters[IndexIn(c, UpperLetters)] ELSE c

UpperChar(c) ==
    IF IndexIn(c, LowerLetters) > 0 THEN UpperLetters[IndexIn(c, LowerLetters)] ELSE c

Lower(s) == [i \in 1..Len(s) |-> LowerChar(s[i])]

Upper(s) == [i \in 1..Len(s) |-> UpperChar(s[i])]

RECURSIVE LStrip(_, _)
LStrip(s, chars) ==
    IF s # <<>> /\ Head(s) \in chars THEN LStrip(Tail(s), chars) ELSE s

RECURSIVE RStrip(_, _)
RStrip(s, chars) ==
    IF s # <<>> /\ s[Len(s)] \in chars
    THEN RStrip(SubSeq(s, 1, Len(s) - 1), chars)
    ELSE s

\* str.strip(): whitespace on both ends
Strip(s) == RStrip(LStrip(s, Whitespace), Whitespace)

\* the first whitespace-delimited word of a string without leading whitespace
RECURSIVE FirstWord(_)
FirstWord(s) ==
    IF s = <<>> \/ Head(s) \in Whitespace THEN <<>> ELSE <<Head(s)>> \o FirstWord(Tail(s))

\* str.split(None, 1) of a stripped string: <<word>> or <<word, rest>>
SplitOnce(s) ==
    LET w    == FirstWord(s)
        rest == LStrip(SubSeq(s, Len(w) + 1, Len(s)), Whitespace)
    IN  IF s = <<>> THEN <<>>
        ELSE IF rest = <<>> THEN <<w>>
        ELSE <<w, rest>>

\* str.split(): the whitespace-delimited words, in order
RECURSIVE Split(_)
Split(s) ==
    LET t == LStrip(s, Whitespace)
        w == FirstWord(t)
    IN  IF t = <<>> THEN <<>>
        ELSE <<w>> \o Split(SubSeq(t, Len(w) + 1, Len(t)))

\* the elements of a sequence satisfying a test, in order
RECURSIVE SelectIdx(_, _, _)
SelectIdx(seq, Keep(_), i) ==
    IF i > Len(seq) THEN <<>>
    ELSE (IF Keep(seq[i]) THEN <<seq[i]>> ELSE <<>>) \o SelectIdx(seq, Keep, i + 1)

Select(seq, Keep(_)) == SelectIdx(seq, Keep, 1)

Range(seq) == { seq[i] : i \in 1..Len(seq) }

----------------------------------------------------------------------------
(* validate_action.py *)

Sessions == {1, 2}

FETCH   == <<"F", "E", "T", "C", "H">>
UPDATE  == <<"U", "P", "D", "A", "T", "E">>
DELETE  == <<"D", "E", "L", "E", "T", "E">>
UNKNOWN == <<"U", "N", "K", "N", "O", "W", "N">>

\* a key that is the action as written
LogKeyRaw(action) == action

\* an earlier ruling that never blocks
PriorDeniesNever(prior) == FALSE

\* a read that is refused
FetchRefused == [executed |-> FALSE, ruling |-> "denied", rationale |-> TRUE]

\* _log_key
LogKey(action) == Lower(Strip(action))

\* _parse_action: <<verb, body>>
ParseAction(action) ==
    LET parts == SplitOnce(Strip(action))
    IN  IF Len(parts) = 2 THEN <<Upper(parts[1]), parts[2]>>
        ELSE <<UNKNOWN, action>>

\* _load_log / dict.get: the ruling under a key, "none" when absent
EmptyLog == [k \in {} |-> "allowed"]

LogGet(log, key) == IF key \in DOMAIN log THEN log[key] ELSE "none"

\* log[key] = ruling
LogPut(log, key, ruling) ==
    [k \in DOMAIN log \cup {key} |-> IF k = key THEN ruling ELSE log[k]]

\* a ledger that blocks on any earlier ruling, allowed or denied
PriorDeniesAnyRuling(prior) == prior # "none"

\* validate_action line 102: only an earlier "denied" blocks the action
PriorDenies(prior) == prior = "denied"

NoResult == [executed |-> FALSE, ruling |-> "none", rationale |-> FALSE]

FetchResultOf   == [executed |-> TRUE,  ruling |-> "fetch",   rationale |-> FALSE]
UpdateResultOf  == [executed |-> TRUE,  ruling |-> "allowed", rationale |-> FALSE]
DeniedResultOf  == [executed |-> FALSE, ruling |-> "denied",  rationale |-> TRUE]

\* the action strings handed to validate_action
Pads == {<<>>, <<Space>>}

ActionInputs ==
    { p \o v \o <<Space>> \o b \o p :
        p \in Pads,
        v \in {UPDATE, Lower(UPDATE), FETCH, DELETE},
        b \in {<<"a">>, <<"A">>, <<"b">>} }
    \cup {UPDATE}

\* a finished call: its record in vhist and its result
Finish(s, res) ==
    /\ vpc' = [vpc EXCEPT ![s] = "idle"]
    /\ vresult' = [vresult EXCEPT ![s] = res]
    /\ vhist' = [vhist EXCEPT ![s] =
                    Append(@, [action |-> vaction[s],
                               key    |-> LogKey(vaction[s]),
                               verb   |-> ParseAction(vaction[s])[1],
                               result |-> res])]

\* validate_action, lines 92-95 and 120-121: parse; FETCH and unknown verbs
\* return at once, UPDATE goes on to read the ledger
ValidateBegin(s, a) ==
    LET verb == ParseAction(a)[1]
    IN  /\ vpc[s] = "idle"
        /\ Len(vhist[s]) < MaxCalls
        /\ vaction' = [vaction EXCEPT ![s] = a]
        /\ IF verb = FETCH
           THEN /\ vpc' = [vpc EXCEPT ![s] = "idle"]
                /\ vresult' = [vresult EXCEPT ![s] = FetchResultOf]
                /\ vhist' = [vhist EXCEPT ![s] =
                                Append(@, [action |-> a, key |-> LogKey(a),
                                           verb |-> verb, result |-> FetchResultOf])]
                /\ execLog' = Append(execLog, [session |-> s, verb |-> FETCH, key |-> LogKey(a)])
           ELSE IF verb = UPDATE
           THEN /\ vpc' = [vpc EXCEPT ![s] = "load"]
                /\ UNCHANGED <<vresult, vhist, execLog>>
           ELSE /\ vpc' = [vpc EXCEPT ![s] = "idle"]
                /\ vresult' = [vresult EXCEPT ![s] = DeniedResultOf]
                /\ vhist' = [vhist EXCEPT ![s] =
                                Append(@, [action |-> a, key |-> LogKey(a),
                                           verb |-> verb, result |-> DeniedResultOf])]
                /\ UNCHANGED execLog
        /\ UNCHANGED <<ledger, vlog>>

\* validate_action called by a session that is not inside turn()
ValidateEnter(s, a) ==
    /\ ValidateBegin(s, a)
    /\ UNCHANGED <<sessionVars, turnVars>>

\* validate_action, lines 98-118 up to the write: _load_log, the prior ruling,
\* the denied short-circuit, _execute_update, and the new entry in the local dict
ValidateLoad(s) ==
    LET key   == LogKey(vaction[s])
        prior == LogGet(ledger, key)
    IN  /\ vpc[s] = "load"
        /\ IF PriorDenies(prior)
           THEN /\ Finish(s, DeniedResultOf)
                /\ vlog' = [vlog EXCEPT ![s] = ledger]
                /\ UNCHANGED execLog
           ELSE /\ execLog' = Append(execLog, [session |-> s, verb |-> UPDATE, key |-> key])
                /\ IF prior = "none"
                   THEN /\ vlog' = [vlog EXCEPT ![s] = LogPut(ledger, key, "allowed")]
                        /\ vpc' = [vpc EXCEPT ![s] = "save"]
                        /\ UNCHANGED <<vresult, vhist>>
                   ELSE /\ vlog' = [vlog EXCEPT ![s] = ledger]
                        /\ Finish(s, UpdateResultOf)
        /\ UNCHANGED <<ledger, vaction, sessionVars, turnVars>>

\* _save_log: the whole file is replaced by the caller's dict
ValidateSave(s) ==
    /\ vpc[s] = "save"
    /\ ledger' = vlog[s]
    /\ Finish(s, UpdateResultOf)
    /\ UNCHANGED <<vaction, vlog, execLog, sessionVars, turnVars>>

\* ledger files found on disk when a session starts: rulings recorded earlier
SeedKeys == { LogKey(UPDATE \o <<Space, "a">>), LogKey(UPDATE \o <<Space, "b">>) }

SeedLedgers ==
    UNION { [d -> {"allowed", "denied"}] : d \in SUBSET SeedKeys }

ValidateIdle ==
    /\ vpc = [s \in Sessions |-> "idle"]
    /\ vaction = [s \in Sessions |-> <<>>]
    /\ vlog = [s \in Sessions |-> EmptyLog]
    /\ vresult = [s \in Sessions |-> NoResult]
    /\ vhist = [s \in Sessions |-> <<>>]
    /\ execLog = <<>>

----------------------------------------------------------------------------
(* identify_actor.py *)

\* The rosters load_actor_specs returns, in directory order.  scope[t] says
\* whether tier_<t>_scope is non-empty; error1 / error2 are error_out_of_tier_1
\* and error_out_of_tier_2; weight and can_own are the [interrupt] table.
Actor(first, family, nick, display, kw, sc, e1, w, own) ==
    [first_name |-> first, family_name |-> family, nickname |-> nick,
     display_name |-> display, has_keywords |-> kw, scope |-> sc,
     error1 |-> e1, error2 |-> <<>>, weight |-> w, can_own |-> own]

ScopeUpTo(n) == [t \in 1..3 |-> t <= n]

CodexName == <<"C", "O", "D", "E", "X">>
JonnyName == <<"J", "o", "n", "n", "y">>
KimName   == <<"K", "i", "m">>
TaoName   == <<"T", "a", "o">>

\* weights[i], owns[i]: the [interrupt] table of the i-th actor
RosterWith(weights, owns) ==
    << Actor(CodexName, <<>>, <<>>, CodexName, FALSE, [t \in 1..3 |-> FALSE],
             <<>>, weights[1], owns[1]),
       Actor(<<"J", "o", "n">>, <<"P", "r", "a", "t", "t">>, JonnyName,
             <<"J", "o", "n", Space, "P", "r", "a", "t", "t">>, TRUE, ScopeUpTo(3),
             <<>>, weights[2], owns[2]),
       Actor(<<"J", "u", "n">>, KimName, <<>>,
             <<"J", "u", "n", Space, "K", "i", "m">>, TRUE, ScopeUpTo(2),
             <<>>, weights[3], owns[3]),
       Actor(<<"M", "i", "n">>, KimName, <<>>,
             <<"M", "i", "n", Space, "K", "i", "m">>, FALSE, ScopeUpTo(1),
             <<"n", "o">>, weights[4], owns[4]),
       Actor(TaoName, <<>>, <<>>, TaoName, TRUE, ScopeUpTo(0),
             <<Space>>, weights[5], owns[5]) >>

Rosters ==
    { RosterWith(<<0, 2, 1, 0, 0>>, <<FALSE, FALSE, TRUE, FALSE, FALSE>>),
      RosterWith(<<0, 2, 0, 0, 3>>, <<FALSE, FALSE, FALSE, FALSE, FALSE>>) }

RosterSize == Len(RosterWith(<<0, 0, 0, 0, 0>>, <<FALSE, FALSE, FALSE, FALSE, FALSE>>))

\* a router that does not know the actors' nicknames
MatchTokensNoNickname(spec) ==
    <<Lower(spec.first_name)>>
    \o (IF spec.family_name # <<>> THEN <<Lower(spec.family_name)>> ELSE <<>>)

\* ActorSpec.match_tokens
MatchTokens(spec) ==
    <<Lower(spec.first_name)>>
    \o (IF spec.family_name # <<>> THEN <<Lower(spec.family_name)>> ELSE <<>>)
    \o (IF spec.nickname # <<>> THEN <<Lower(spec.nickname)>> ELSE <<>>)

Punctuation == {".", ",", "!", "?", ";", ":"}

\* the tokens of _explicit_match: lowercased words without edge punctuation
QueryTokens(text) ==
    LET words == Split(Lower(text))
    IN  [i \in 1..Len(words) |-> RStrip(LStrip(words[i], Punctuation), Punctuation)]

\* _explicit_match: indices of the matching actors, in roster order
ExplicitMatch(text, roster) ==
    LET tokens == Range(QueryTokens(text))
        Hit(i) == \E t \in Range(MatchTokens(roster[i])) : t \in tokens
    IN  Select([i \in 1..Len(roster) |-> i], Hit)

SupportThreshold == 30     \* score >= 0.3, in hundredths
MainThreshold    == 70     \* score >= 0.7, in hundredths

\* sorted(results, key=score, reverse=True): stable, highest score first
RECURSIVE InsertByScore(_, _)
InsertByScore(sorted, e) ==
    IF sorted = <<>> THEN <<e>>
    ELSE IF Head(sorted).score >= e.score
         THEN <<Head(sorted)>> \o InsertByScore(Tail(sorted), e)
         ELSE <<e>> \o sorted

RECURSIVE SortByScore(_, _)
SortByScore(seq, n) ==
    IF n = 0 THEN <<>> ELSE InsertByScore(SortByScore(seq, n - 1), seq[n])

\* a scorer that keeps only the scores strictly above the threshold
ImplicitMatchStrict(sim, roster) ==
    LET Scored(i) == roster[i].has_keywords /\ sim[i] > SupportThreshold
        kept == Select([i \in 1..Len(roster) |-> i], Scored)
        pairs == [k \in 1..Len(kept) |-> [spec |-> kept[k], score |-> sim[kept[k]]]]
    IN  SortByScore(pairs, Len(pairs))

\* _implicit_match: sim[i] is the oracle's score of actor i, in hundredths
ImplicitMatch(sim, roster) ==
    LET Scored(i) == roster[i].has_keywords /\ sim[i] >= SupportThreshold
        kept == Select([i \in 1..Len(roster) |-> i], Scored)
        pairs == [k \in 1..Len(kept) |-> [spec |-> kept[k], score |-> sim[kept[k]]]]
    IN  SortByScore(pairs, Len(pairs))

NoSimilarity == -1

\* identify_actor
IdentifyActor(q, roster) ==
    LET explicit == ExplicitMatch(q.text, roster)
        scored   == ImplicitMatch(q.sim, roster)
        IsMain(e)    == e.score >= MainThreshold
        IsSupport(e) == e.score < MainThreshold
        mains    == Select(scored, IsMain)
        supports == Select(scored, IsSupport)
        actors   == [k \in 1..Len(mains) |->
                        [spec |-> mains[k].spec, role |-> "main",
                         similarity |-> mains[k].score]]
                    \o [k \in 1..Len(supports) |->
                        [spec |-> supports[k].spec, role |-> "support",
                         similarity |-> supports[k].score]]
    IN  IF explicit # <<>>
        THEN IF Len(explicit) = 1
             THEN [flow_type |-> "standard",
                   actors |-> <<[spec |-> explicit[1], role |-> "main",
                                 similarity |-> NoSimilarity]>>,
                   stage_note |-> <<>>]
             ELSE [flow_type |-> "ambiguous",
                   actors |-> [k \in 1..Len(explicit) |->
                                 [spec |-> explicit[k], role |-> "main",
                                  similarity |-> NoSimilarity]],
                   stage_note |-> <<"Ambiguous: matches">> \o explicit]
        ELSE IF scored = <<>>
        THEN [flow_type |-> "too_vague", actors |-> <<>>,
              stage_note |-> <<"Query matched no advisor domain.">>]
        ELSE IF Len(scored) >= 3
        THEN [flow_type |-> "too_broad", actors |-> <<>>,
              stage_note |-> <<"Query too broad - matches">>
                             \o [k \in 1..Len(scored) |-> scored[k].spec]]
        ELSE [flow_type |-> IF Len(actors) = 2 /\ Len(mains) # 1
                            THEN "debate" ELSE "standard",
              actors |-> actors, stage_note |-> <<>>]

----------------------------------------------------------------------------
(* tier_check.py *)

TIERS == <<1, 2, 3>>

\* _is_codex
IsCodex(spec) == Lower(spec.first_name) = Lower(CodexName)

\* _actor_max_tier: the last tier of TIERS whose scope is non-empty, else 1
RECURSIVE MaxTierFrom(_, _, _)
MaxTierFrom(spec, k, acc) ==
    IF k > Len(TIERS) THEN acc
    ELSE MaxTierFrom(spec, k + 1, IF spec.scope[TIERS[k]] THEN TIERS[k] ELSE acc)

ActorMaxTier(spec) == MaxTierFrom(spec, 1, 1)

\* a gap counted from the actor's tier down to the session's
TierGapReversed(actor_max_tier, current_tier) == actor_max_tier - current_tier

\* _tier_gap
TierGap(actor_max_tier, current_tier) == current_tier - actor_max_tier

\* the refusal text of a blocked actor: the configured text of the error key
\* for its max tier, or the generic sentence when that is empty
ErrorMessage(spec, current_tier) ==
    LET max_tier == ActorMaxTier(spec)
        configured == IF max_tier = 2 THEN spec.error2 ELSE spec.error1
    IN  IF Strip(configured) # <<>> THEN Strip(configured)
        ELSE spec.display_name \o <<" cannot advise at Tier ", current_tier, ".">>

\* tier_check
TierCheck(actor, current_tier, roster) ==
    LET spec == roster[actor.spec]
        gap  == TierGap(ActorMaxTier(spec), current_tier)
    IN  IF IsCodex(spec) THEN [actor |-> actor, confidence |-> "full", error_message |-> <<>>]
        ELSE IF gap <= 0 THEN [actor |-> actor, confidence |-> "full", error_message |-> <<>>]
        ELSE IF gap = 1 THEN [actor |-> actor, confidence |-> "hedged", error_message |-> <<>>]
        ELSE [actor |-> actor, confidence |-> "blocked",
              error_message |-> ErrorMessage(spec, current_tier)]

\* tier_check_all
TierCheckAll(actors, current_tier, roster) ==
    [k \in 1..Len(actors) |-> TierCheck(actors[k], current_tier, roster)]

----------------------------------------------------------------------------
(* orchestrator.py: turn() *)

\* _stage_direction
StageDirection(note) == [kind |-> "stage", text |-> note]

RefusalLine(tr, roster) ==
    [kind |-> "refusal",
     text |-> Upper(roster[tr.actor.spec].display_name) \o <<": ">> \o tr.error_message]

NoResultYet == [flow_type |-> "none", actors |-> <<>>, stage_note |-> <<>>]
NoLLMResult == [raw |-> <<>>, flow_type |-> "none", success |-> FALSE, error |-> "none"]
NoParsed    == [thought |-> <<>>, action |-> <<>>, chat |-> <<>>,
                action_valid |-> FALSE, fallback_used |-> FALSE]
NoReturn    == [kind |-> "none", exit |-> "none", value |-> <<>>]

TerminalFlows == {"too_vague", "too_broad", "no_match"}

\* a router that lets an over-broad query through to the gate
IsTerminalFlowNarrow(ft) == ft \in {"too_vague", "no_match"}

\* a router that ends the turn on an ambiguous match as well
IsTerminalFlowWithAmbiguous(ft) == ft \in TerminalFlows \cup {"ambiguous"}

\* line 116: the flows that end the turn with the router's note
IsTerminalFlow(ft) == ft \in TerminalFlows

\* the parameters prompt_assemble declares, and the keyword arguments turn()
\* passes to it at both of its call sites
PromptAssembleParams ==
    {"fetch_results", "query", "system_path", "campaigns_dir", "codex_spec_path",
     "history", "tier"}

TurnPromptKeywords == {"history", "tier", "date"}

\* Python's call binding: a keyword the callee does not declare is a TypeError
CallBinds(params, keywords) == keywords \subseteq params

\* a pool that takes the debating actors as well
InterruptPoolOfAll(roster, debating) == { i \in 1..Len(roster) : roster[i].weight # 0 }

\* _select_interruptor: the pool of (actor, weight) pairs, as actor indices
InterruptPool(roster, debating) ==
    LET debating_names == { Lower(roster[debating[k]].first_name) : k \in 1..Len(debating) }
    IN  { i \in 1..Len(roster) :
            /\ roster[i].weight # 0
            /\ ~ (Lower(roster[i].first_name) \in debating_names /\ ~ roster[i].can_own) }

\* the queries put to turn(): the words typed, and the oracle's score of each
\* actor's domain keywords in hundredths
Scores == {29, 30, 69, 70}

NoScores == [i \in 1..RosterSize |-> 0]

SimVectors ==
    { [i \in 1..RosterSize |-> IF i \in {2, 3, 5} THEN f[i] ELSE 0] :
        f \in [{2, 3, 5} -> Scores] }

NamedTexts ==
    { JonnyName \o <<",", Space, "g", "o", "?">>,
      <<"k", "i", "m", "?">>,
      TaoName,
      <<"M", "i", "n", Space>> \o TaoName \o <<"!">>,
      Lower(CodexName) \o <<Space, "g", "o">>,
      KimName \o <<Space>> \o TaoName }

UnnamedTexts == { <<"K", "i", "m", "o", "n", "o", Space, "g", "o">> }

Queries ==
    { [text |-> t, sim |-> NoScores] : t \in NamedTexts }
    \cup { [text |-> t, sim |-> v] : t \in UnnamedTexts, v \in SimVectors }

BackendModes == {"ok", "timeout", "transport", "empty"}

\* the inference backend goes up or down; only its condition at the time of a
\* request matters, so it moves between turns
BackendChange(b) ==
    /\ pc \in {"idle", "done"}
    /\ b # backend
    /\ backend' = b
    /\ UNCHANGED <<ledgerVars, sessionVars, pc, query, result, active, output_lines,
                   flow_type, interruptor, fetches, llm_calls, ret, turn0, stageVars>>

\* turn() is called: a caller holding the session state passes a query
TurnCall(q) ==
    /\ pc \in {"idle", "done"}
    /\ debate_turn < MaxDebateTurn
    /\ pc' = "identify_actor"
    /\ query' = q
    /\ result' = NoResultYet
    /\ active' = <<>>
    /\ output_lines' = <<>>
    /\ flow_type' = "none"
    /\ interruptor' = 0
    /\ fetches' = <<>>
    /\ llm_calls' = 0
    /\ ret' = NoReturn
    /\ turn0' = [debate_turn |-> debate_turn, history |-> history,
                 ledger |-> ledger, transcript |-> transcript]
    /\ llm_result' = NoLLMResult
    /\ parsed' = NoParsed
    /\ action_result' = NoResult
    /\ UNCHANGED <<ledgerVars, sessionVars, backend>>

\* lines 113-121: identify_actor and the terminal flows
TurnIdentify ==
    LET r == IdentifyActor(query, specs)
    IN  /\ pc = "identify_actor"
        /\ result' = r
        /\ IF IsTerminalFlow(r.flow_type)
           THEN /\ pc' = "done"
                /\ ret' = [kind |-> "returned", exit |-> "terminal_flow",
                           value |-> <<StageDirection(
                                IF r.stage_note # <<>> THEN r.stage_note
                                ELSE <<"The council does not respond.">>)>>]
           ELSE /\ pc' = "tier_check"
                /\ UNCHANGED ret
        /\ UNCHANGED <<ledgerVars, sessionVars, query, backend, active, output_lines,
                       flow_type, interruptor, fetches, llm_calls, turn0, stageVars>>

\* lines 123-142: tier_check_all, the refusal lines of the blocked actors, the
\* all-blocked exit and the collapse of a debate that lost an actor
TurnTierCheck ==
    LET tier_results == TierCheckAll(result.actors, tier, specs)
        IsBlocked(tr) == tr.confidence = "blocked"
        NotBlocked(tr) == tr.confidence # "blocked"
        blocked == Select(tier_results, IsBlocked)
        act     == Select(tier_results, NotBlocked)
        lines   == [k \in 1..Len(blocked) |-> RefusalLine(blocked[k], specs)]
    IN  /\ pc = "tier_check"
        /\ active' = act
        /\ output_lines' = lines
        /\ IF act = <<>>
           THEN /\ pc' = "done"
                /\ ret' = [kind |-> "returned", exit |-> "all_blocked",
                           value |-> IF lines # <<>> THEN lines
                                     ELSE <<StageDirection(
                                        <<"No advisor can help with this at the current tier.">>)>>]
                /\ UNCHANGED flow_type
           ELSE /\ pc' = "debate_limits"
                /\ flow_type' = IF result.flow_type = "debate" /\ Len(act) = 1
                                THEN "standard" ELSE result.flow_type
                /\ UNCHANGED ret
        /\ UNCHANGED <<ledgerVars, sessionVars, query, backend, result,
                       interruptor, fetches, llm_calls, turn0, stageVars>>

DebateNudgeAt  == 3
DebateInterruptAt == 5

\* a nudge on every debate turn from the third on
NudgeDueFrom(counter) == counter >= DebateNudgeAt

\* line 146: if state.debate_turn == 3
NudgeDue(counter) == counter = DebateNudgeAt

\* line 147
DecisionNudge == StageDirection(<<"Positions are clear. A decision is needed.">>)

\* lines 144-167: the debate counter, the nudge, the choice of an interruptor
TurnDebateLimits ==
    /\ pc = "debate_limits"
    /\ IF flow_type = "debate"
       THEN /\ debate_turn' = debate_turn + 1
            /\ IF NudgeDue(debate_turn + 1)
               THEN /\ output_lines' = Append(output_lines, DecisionNudge)
                    /\ pc' = "fragment_fetch"
                    /\ UNCHANGED interruptor
               ELSE IF debate_turn + 1 >= DebateInterruptAt
               THEN LET pool == InterruptPool(specs, [k \in 1..Len(active) |-> active[k].actor.spec])
                    IN  IF pool # {}
                        THEN /\ \E i \in pool : interruptor' = i
                             /\ pc' = "interrupt"
                             /\ UNCHANGED output_lines
                        ELSE /\ pc' = "fragment_fetch"
                             /\ UNCHANGED <<interruptor, output_lines>>
               ELSE /\ pc' = "fragment_fetch"
                    /\ UNCHANGED <<interruptor, output_lines>>
       ELSE /\ debate_turn' = 0
            /\ pc' = "fragment_fetch"
            /\ UNCHANGED <<interruptor, output_lines>>
    /\ UNCHANGED <<ledgerVars, specs, tier, history, transcript, log_file, promptVars, query, backend,
                   result, active, flow_type, fetches, llm_calls, ret, turn0, stageVars>>

\* lines 153-160: the interruptor's fragments, then prompt_assemble(...,
\* date=state.date)
TurnInterrupt ==
    /\ pc = "interrupt"
    /\ fetches' = <<[actor |-> interruptor, confidence |-> "full", others |-> <<>>]>>
    /\ IF CallBinds(PromptAssembleParams, TurnPromptKeywords)
       THEN /\ pc' = "interrupt_llm_call"
            /\ UNCHANGED ret
       ELSE /\ pc' = "done"
            /\ ret' = [kind |-> "raised", exit |-> "TypeError", value |-> <<>>]
    /\ UNCHANGED <<ledgerVars, sessionVars, query, backend, result, active,
                   output_lines, flow_type, interruptor, llm_calls, turn0, stageVars>>

\* lines 169-176: one fragment_fetch per active actor, with the display names
\* of the other active actors
TurnFragmentFetch ==
    LET names == [k \in 1..Len(active) |-> specs[active[k].actor.spec].display_name]
        Others(k) ==
            LET Differs(n) == n # names[k] IN Select(names, Differs)
    IN  /\ pc = "fragment_fetch"
        /\ fetches' = [k \in 1..Len(active) |->
                          [actor |-> active[k].actor.spec,
                           confidence |-> active[k].confidence,
                           others |-> Others(k)]]
        /\ pc' = "prompt_assemble"
        /\ UNCHANGED <<ledgerVars, sessionVars, query, backend, result, active,
                       output_lines, flow_type, interruptor, llm_calls, ret, turn0, stageVars>>

\* lines 178-183: prompt_assemble(fetches, query, ..., history=, tier=, date=)
TurnPromptAssemble ==
    /\ pc = "prompt_assemble"
    /\ IF CallBinds(PromptAssembleParams, TurnPromptKeywords)
       THEN /\ pc' = "llm_call"
            /\ UNCHANGED ret
       ELSE /\ pc' = "done"
            /\ ret' = [kind |-> "raised", exit |-> "TypeError", value |-> <<>>]
    /\ UNCHANGED <<ledgerVars, sessionVars, query, backend, result, active,
                   output_lines, flow_type, interruptor, fetches, llm_calls, turn0, stageVars>>

\* _system_hash before the first load
NoHash == <<>>

\* no AssembledPrompt yet
NoPrompt == [system |-> <<>>, user |-> <<>>]

\* the placeholder of system.txt that prompt_assemble replaces by the tier
TierPlaceholder == "{tier}"

\* the files: system.txt, the game state report (empty: no data), and the
\* report_line_budget key of codex/spec.toml (0: the key is absent)
Files(system, gamestate, budget) ==
    [system |-> system, gamestate |-> gamestate, budget |-> budget]

SystemV1 == <<"You advise the council. Campaign tier: ", TierPlaceholder, ".">>

\* the process has loaded no prompt
PromptIdle ==
    /\ files = Files(SystemV1, <<>>, 0)
    /\ system_hash = NoHash
    /\ system_seen = <<>>
    /\ warnings = 0
    /\ prompt = NoPrompt

\* OrchestratorState.__init__
SessionInit ==
    /\ specs \in Rosters
    /\ tier \in 1..3
    /\ history = <<>>
    /\ debate_turn = 0
    /\ transcript = <<>>
    /\ log_file = <<>>
    /\ PromptIdle

TurnIdle ==
    /\ pc = "idle"
    /\ query = [text |-> <<>>, sim |-> NoScores]
    /\ result = NoResultYet
    /\ active = <<>>
    /\ output_lines = <<>>
    /\ flow_type = "none"
    /\ interruptor = 0
    /\ fetches = <<>>
    /\ llm_calls = 0
    /\ ret = NoReturn
    /\ llm_result = NoLLMResult
    /\ parsed = NoParsed
    /\ action_result = NoResult
    /\ turn0 = [debate_turn |-> 0, history |-> <<>>, ledger |-> ledger,
                transcript |-> <<>>]

\* a session on a campaign without a decision log yet
Init ==
    /\ ledger = EmptyLog
    /\ ValidateIdle
    /\ SessionInit
    /\ backend \in BackendModes
    /\ TurnIdle

Next ==
    \/ \E b \in BackendModes : BackendChange(b)
    \/ \E q \in Queries : TurnCall(q)
    \/ TurnIdentify
    \/ TurnTierCheck
    \/ TurnDebateLimits
    \/ TurnInterrupt
    \/ TurnFragmentFetch
    \/ TurnPromptAssemble

Spec == Init /\ [][Next]_vars

----------------------------------------------------------------------------
(* llm_call.py, parse_response.py, commit_log.py and lines 185-217 of turn() *)

\* a fallback with nothing in it
NoResponse == <<>>

\* _FALLBACK_RESPONSE
FallbackResponse == <<"[The council is silent. Something has gone wrong.]">>

\* llm_call: the answer of the backend to one request.  content is the text
\* of the first choice of a successful response.
LlmCall(mode, content, flow) ==
    IF mode = "timeout"
    THEN [raw |-> FallbackResponse, flow_type |-> flow, success |-> FALSE, error |-> "timeout"]
    ELSE IF mode = "transport"
    THEN [raw |-> FallbackResponse, flow_type |-> flow, success |-> FALSE, error |-> "request failed"]
    ELSE IF Strip(content) = <<>>
    THEN [raw |-> FallbackResponse, flow_type |-> flow, success |-> FALSE, error |-> "empty response"]
    ELSE [raw |-> Strip(content), flow_type |-> flow, success |-> TRUE, error |-> "none"]

\* the tags _BLOCK_PATTERN recognises, in either case, as single pieces of text
TagThought == "[THOUGHT]"
TagAction  == "[ACTION]"
TagChat    == "[CHAT]"

TagName(c) ==
    IF c \in {TagThought, "[thought]"} THEN "THOUGHT"
    ELSE IF c \in {TagAction, "[action]"} THEN "ACTION"
    ELSE IF c \in {TagChat, "[chat]"} THEN "CHAT"
    ELSE "none"

IsTag(c) == TagName(c) # "none"

NoneText == <<"<None>">>

\* the stripped text after the last tag of this name, up to the next tag or the
\* end of the output; NoneText when the tag does not occur
Block(raw, name) ==
    LET at == { i \in 1..Len(raw) : TagName(raw[i]) = name }
    IN  IF at = {} THEN NoneText
        ELSE LET p    == CHOOSE i \in at : \A j \in at : j <= i
                 tags == { i \in (p + 1)..Len(raw) : IsTag(raw[i]) }
                 stop == IF tags = {} THEN Len(raw) + 1
                         ELSE CHOOSE i \in tags : \A j \in tags : i <= j
             IN  Strip(SubSeq(raw, p + 1, stop - 1))

\* a truth test that only None fails
FalsyNoneOnly(text) == text = NoneText

\* a None or empty text
Falsy(text) == text = NoneText \/ text = <<>>

\* _ACTION_VALID_PATTERN: FETCH or UPDATE in any case, whitespace, content
ActionValid(text) ==
    \E v \in {FETCH, UPDATE} :
        /\ Len(text) > Len(v) + 1
        /\ SubSeq(Upper(text), 1, Len(v)) = v
        /\ text[Len(v) + 1] \in Whitespace
        /\ LStrip(SubSeq(text, Len(v) + 1, Len(text)), Whitespace) # <<>>

\* parse_response
ParseResponse(res) ==
    LET raw        == Strip(res.raw)
        no_blocks  == \A i \in 1..Len(raw) : ~ IsTag(raw[i])
        thought    == Block(raw, "THOUGHT")
        action_raw == Block(raw, "ACTION")
        chat       == Block(raw, "CHAT")
        valid      == ~ Falsy(action_raw) /\ ActionValid(action_raw)
        action     == IF ~ Falsy(action_raw) /\ ~ valid THEN NoneText ELSE action_raw
    IN  IF no_blocks
        THEN [thought |-> NoneText, action |-> NoneText,
              chat |-> IF raw # <<>> THEN raw ELSE FallbackResponse,
              action_valid |-> FALSE, fallback_used |-> raw = <<>>]
        ELSE IF Falsy(chat)
        THEN [thought |-> thought, action |-> action, chat |-> FallbackResponse,
              action_valid |-> valid, fallback_used |-> TRUE]
        ELSE [thought |-> thought, action |-> action, chat |-> chat,
              action_valid |-> valid, fallback_used |-> FALSE]

\* _format_turn: the block commit_log appends
FormatTurn(ctx) ==
    [session_tier |-> ctx.tier,
     flow_type    |-> ctx.flow_type,
     query        |-> ctx.query,
     thought      |-> IF ~ Falsy(ctx.parsed.thought) THEN ctx.parsed.thought ELSE <<>>,
     action       |-> IF ~ Falsy(ctx.parsed.action) /\ ctx.action_result # NoResult
                      THEN ctx.parsed.action
                           \o <<IF ctx.action_result.executed THEN "  [OK]" ELSE "  [REJECTED]">>
                      ELSE <<>>,
     speaker      |-> Upper(ctx.speaker),
     chat         |-> ctx.parsed.chat,
     turn_end     |-> TRUE]

TurnEndMarker == "=== TURN END ==="

\* "\n".join(lines)
RECURSIVE Join(_)
Join(lines) ==
    IF lines = <<>> THEN <<>>
    ELSE IF Len(lines) = 1 THEN lines[1]
    ELSE lines[1] \o <<Newline>> \o Join(Tail(lines))

\* str(tier) and flow_type.upper() in the header line
TierText(t) == <<"1", "2", "3">>[t]

FlowUpper(flow) ==
    CASE flow = "standard" -> "STANDARD"
      [] flow = "codex" -> "CODEX"
      [] flow = "debate_turn" -> "DEBATE_TURN"
      [] OTHER -> "DEBATE_INTERRUPT"

\* _format_turn: the text commit_log writes, the lines joined by newlines
FormatTurnText(ctx) ==
    LET block == FormatTurn(ctx)
    IN  Join( << <<"=== SESSION id | TIER ", TierText(block.session_tier), " | ",
                   FlowUpper(block.flow_type), " ===">>,
                 <<>>, <<"USER">>, block.query, <<>> >>
              \o (IF block.thought # <<>>
                  THEN << <<TagThought, Space>> \o block.thought, <<>> >> ELSE <<>>)
              \o (IF block.action # <<>>
                  THEN << <<TagAction, Space>> \o block.action, <<>> >> ELSE <<>>)
              \o << block.speaker, block.chat, <<>>, <<TurnEndMarker>>, <<>> >> )

\* a write that replaces the file
OverwriteFile(file, text) == text

\* open(log_file, "a") and write
AppendToFile(file, text) == file \o text

\* display, for the standard, debate_turn and codex flows
Display(p, speaker) ==
    IF Strip(p.chat) = <<>> THEN <<>>
    ELSE Upper(speaker) \o <<": ">> \o Strip(p.chat)

HistoryCap == 20

\* a window of one entry less than the cap
LastEntriesOdd(h) ==
    IF Len(h) <= HistoryCap - 1 THEN h ELSE SubSeq(h, Len(h) - HistoryCap + 2, Len(h))

\* state.history[-20:]
LastEntries(h) ==
    IF Len(h) <= HistoryCap THEN h ELSE SubSeq(h, Len(h) - HistoryCap + 1, Len(h))

\* line 186
LlmFlow ==
    IF \E k \in 1..Len(active) : IsCodex(specs[active[k].actor.spec]) THEN "codex"
    ELSE IF flow_type = "debate" THEN "debate_turn"
    ELSE "standard"

\* line 198
Speaker == specs[active[1].actor.spec].display_name

\* what the backend may put in the first choice of a successful response
Contents ==
    { <<TagThought, Space, "t", Newline, TagAction, Space>> \o UPDATE
          \o <<Space, "a", Newline, TagChat, Space, "h", "i">>,
      <<TagAction, Space>> \o Lower(UPDATE) \o <<Space, "A", Space, "[chat]", "h", "i">>,
      <<TagAction, Space>> \o UPDATE \o <<Space, "b", TagChat, "h", "i">>,
      <<TagAction, Space>> \o FETCH \o <<Space, "a", TagChat, "h", "i">>,
      <<TagAction, Space>> \o DELETE \o <<Space, "a", TagChat, "h", "i">>,
      <<TagThought, "t", TagChat, "h", "i">>,
      <<TagThought, "t">>,
      <<"h", "i">>,
      <<Space>> }

\* the stages are entered with the prompt of a query that one actor, named in
\* it and not blocked, is to answer.  In turn() as written the call at lines
\* 178-183 raises (TurnPromptAssemble), so these stages are the code of lines
\* 185-217 taken from an assembled prompt.
StageEnter(q) ==
    LET r  == IdentifyActor(q, specs)
        NotBlocked(tr) == tr.confidence # "blocked"
        act == Select(TierCheckAll(r.actors, tier, specs), NotBlocked)
    IN  /\ pc \in {"idle", "done"}
        /\ Len(vhist[1]) < MaxCalls
        /\ Len(transcript) < MaxTurns
        /\ r.flow_type = "standard"
        /\ act # <<>>
        /\ pc' = "llm_call"
        /\ query' = q
        /\ result' = r
        /\ active' = act
        /\ output_lines' = <<>>
        /\ flow_type' = "standard"
        /\ interruptor' = 0
        /\ fetches' = <<[actor |-> act[1].actor.spec, confidence |-> act[1].confidence,
                         others |-> <<>>]>>
        /\ llm_calls' = 0
        /\ ret' = NoReturn
        /\ llm_result' = NoLLMResult
        /\ parsed' = NoParsed
        /\ action_result' = NoResult
        /\ turn0' = [debate_turn |-> debate_turn, history |-> history,
                     ledger |-> ledger, transcript |-> transcript]
        /\ UNCHANGED <<ledgerVars, sessionVars, backend>>

\* lines 185-187: one request to the backend, which answers as it will
StageLlmCall(mode, content) ==
    /\ pc = "llm_call"
    /\ backend' = mode
    /\ llm_result' = LlmCall(mode, IF mode = "empty" THEN <<>> ELSE content, LlmFlow)
    /\ llm_calls' = llm_calls + 1
    /\ pc' = "parse_response"
    /\ UNCHANGED <<ledgerVars, sessionVars, query, result, active, output_lines,
                   flow_type, interruptor, fetches, ret, turn0, parsed, action_result>>

\* lines 189-190
StageParse ==
    /\ pc = "parse_response"
    /\ parsed' = ParseResponse(llm_result)
    /\ pc' = "validate_action"
    /\ UNCHANGED <<ledgerVars, sessionVars, query, backend, result, active, output_lines,
                   flow_type, interruptor, fetches, llm_calls, ret, turn0, llm_result,
                   action_result>>

\* lines 192-195: validate_action is called for a valid action only
StageValidate ==
    /\ pc = "validate_action"
    /\ IF ~ Falsy(parsed.action) /\ parsed.action_valid
       THEN /\ ValidateBegin(1, parsed.action)
            /\ pc' = "validating"
       ELSE /\ pc' = "commit_log"
            /\ UNCHANGED ledgerVars
    /\ UNCHANGED <<sessionVars, query, backend, result, active, output_lines,
                   flow_type, interruptor, fetches, llm_calls, ret, turn0, stageVars>>

\* validate_action has returned
StageValidated ==
    /\ pc = "validating"
    /\ vpc[1] = "idle"
    /\ action_result' = vresult[1]
    /\ pc' = "commit_log"
    /\ UNCHANGED <<ledgerVars, sessionVars, query, backend, result, active, output_lines,
                   flow_type, interruptor, fetches, llm_calls, ret, turn0, llm_result,
                   parsed>>

\* lines 197-217: commit_log with the write succeeding, then the two history
\* entries, the cut to the last 20 and the displayed reply
StageCommit ==
    LET ctx == [tier |-> tier, flow_type |-> LlmFlow, speaker |-> Speaker,
                query |-> query.text, parsed |-> parsed, action_result |-> action_result]
        line == [kind |-> "reply", text |-> Display(parsed, Speaker)]
    IN  /\ pc = "commit_log"
        /\ transcript' = Append(transcript, FormatTurn(ctx))
        /\ log_file' = AppendToFile(log_file, FormatTurnText(ctx))
        /\ history' = LastEntries(
                Append(Append(history,
                    [role |-> "user", speaker |-> <<"U", "s", "e", "r">>, content |-> query.text]),
                    [role |-> "advisor", speaker |-> Speaker, content |-> parsed.chat]))
        /\ output_lines' = Append(output_lines, line)
        /\ ret' = [kind |-> "returned", exit |-> "committed",
                   value |-> Append(output_lines, line)]
        /\ pc' = "done"
        /\ UNCHANGED <<ledgerVars, specs, tier, debate_turn, promptVars, query, backend,
                       result, active, flow_type, interruptor, fetches, llm_calls, turn0,
                       stageVars>>

\* lines 197-208: the append to the session log fails; commit_log logs the
\* OSError and raises it again, and turn() does not catch it
StageCommitFails ==
    /\ pc = "commit_log"
    /\ ret' = [kind |-> "raised", exit |-> "OSError", value |-> <<>>]
    /\ pc' = "done"
    /\ UNCHANGED <<ledgerVars, sessionVars, query, backend, result, active, output_lines,
                   flow_type, interruptor, fetches, llm_calls, turn0, stageVars>>

StageQueries ==
    { [text |-> t, sim |-> NoScores] :
        t \in { JonnyName \o <<",", Space, "g", "o", "?">>,
                Lower(CodexName) \o <<Space, "g", "o">> } }

StageInit ==
    /\ ledger \in { l \in SeedLedgers : DOMAIN l \subseteq {LogKey(UPDATE \o <<Space, "a">>)} }
    /\ ValidateIdle
    /\ specs = RosterWith(<<0, 2, 1, 0, 0>>, <<FALSE, FALSE, TRUE, FALSE, FALSE>>)
    /\ tier = 1
    /\ history = <<>>
    /\ debate_turn = 0
    /\ transcript = <<>>
    /\ log_file = <<>>
    /\ PromptIdle
    /\ backend = "ok"
    /\ TurnIdle

NextStages ==
    \/ \E q \in StageQueries : StageEnter(q)
    \/ \E mode \in BackendModes, content \in Contents : StageLlmCall(mode, content)
    \/ StageParse
    \/ StageValidate
    \/ ValidateLoad(1)
    \/ ValidateSave(1)
    \/ StageValidated
    \/ StageCommit
    \/ StageCommitFails

SpecStages == StageInit /\ [][NextStages]_vars

----------------------------------------------------------------------------
(* validate_action called directly on a campaign's ledger file *)

LedgerInit ==
    /\ ledger \in SeedLedgers
    /\ ValidateIdle
    /\ specs = RosterWith(<<0, 2, 1, 0, 0>>, <<FALSE, FALSE, TRUE, FALSE, FALSE>>)
    /\ tier = 1
    /\ history = <<>>
    /\ debate_turn = 0
    /\ transcript = <<>>
    /\ log_file = <<>>
    /\ PromptIdle
    /\ backend = "ok"
    /\ TurnIdle

\* one session, calls one after another
NextLedger ==
    \/ \E a \in ActionInputs : ValidateEnter(1, a)
    \/ ValidateLoad(1)
    \/ ValidateSave(1)

SpecLedger == LedgerInit /\ [][NextLedger]_vars

\* two sessions on the same campaign's ledger file
SharedInputs ==
    { UPDATE \o <<Space, "a">>,
      <<Space>> \o Lower(UPDATE) \o <<Space, "A", Space>>,
      UPDATE \o <<Space, "b">>,
      FETCH \o <<Space, "a">> }

NextShared ==
    \/ \E s \in Sessions, a \in SharedInputs : ValidateEnter(s, a)
    \/ \E s \in Sessions : ValidateLoad(s)
    \/ \E s \in Sessions : ValidateSave(s)

SpecShared == LedgerInit /\ [][NextShared]_vars

----------------------------------------------------------------------------
(* Decision ledger: repeated and concurrent write-type actions *)

\* the runs of _execute_update for one key
UpdateRuns(key) ==
    Cardinality({ i \in 1..Len(execLog) :
                    execLog[i].verb = UPDATE /\ execLog[i].key = key })

\* the finished UPDATE calls of a session for one key, by ruling
UpdateCalls(s, key, ruling) ==
    Cardinality({ i \in 1..Len(vhist[s]) :
                    /\ vhist[s][i].verb = UPDATE
                    /\ vhist[s][i].key = key
                    /\ vhist[s][i].result.ruling = ruling })

\* two finished UPDATE calls of session 1 with the same normalized action
SameKeyPairs ==
    { p \in (1..Len(vhist[1])) \X (1..Len(vhist[1])) :
        /\ p[1] < p[2]
        /\ vhist[1][p[1]].verb = UPDATE
        /\ vhist[1][p[2]].verb = UPDATE
        /\ vhist[1][p[1]].key = vhist[1][p[2]].key }

\* C1 as stated: two validate_action calls with the same normalized UPDATE
\* action run the update logic at most once in total and return the same
\* ruling both times.
C1_ExecutedAtMostOnce ==
    vpc[1] = "idle" =>
        \A p \in SameKeyPairs :
            /\ vhist[1][p[1]].result.ruling = vhist[1][p[2]].result.ruling
            /\ UpdateRuns(vhist[1][p[1]].key) <= 1

\* C1 amended: two validate_action calls with the same normalized UPDATE
\* action return the same ruling, and the update logic runs once for every
\* call ruled allowed and never for a call ruled denied.
C1_SameRulingRunsPerAllowedCall ==
    vpc[1] = "idle" =>
        /\ \A p \in SameKeyPairs :
              /\ vhist[1][p[1]].result.ruling = vhist[1][p[2]].result.ruling
              /\ vhist[1][p[1]].result.executed = vhist[1][p[2]].result.executed
        /\ \A i \in 1..Len(vhist[1]) :
              vhist[1][i].verb = UPDATE =>
                  /\ UpdateRuns(vhist[1][i].key) = UpdateCalls(1, vhist[1][i].key, "allowed")
                  /\ vhist[1][i].result.executed = (vhist[1][i].result.ruling = "allowed")

\* C1 witness: the same normalized action, written differently, was issued
\* twice to a ledger that did not hold it, and both calls ran the update
C1_Witness ==
    /\ vpc[1] = "idle"
    /\ \E p \in SameKeyPairs :
          /\ vhist[1][p[1]].action # vhist[1][p[2]].action
          /\ vhist[1][p[1]].result.ruling = "allowed"
          /\ vhist[1][p[2]].result.ruling = "allowed"
          /\ UpdateRuns(vhist[1][p[1]].key) = 2

\* C2: when two sessions sharing the ledger file have both finished, every
\* write-type action either of them was allowed is recorded in the ledger
\* (no lost update).
C2_NoLostUpdate ==
    (\A s \in Sessions : vpc[s] = "idle") =>
        \A s \in Sessions : \A i \in 1..Len(vhist[s]) :
            (vhist[s][i].verb = UPDATE /\ vhist[s][i].result.ruling = "allowed")
                => vhist[s][i].key \in DOMAIN ledger

----------------------------------------------------------------------------
(* turn(): how a turn ends *)

TurnOver == pc = "done"

\* the turn got past the gate with at least one actor and was not cut short
\* by a debate interrupt: the turns that are due an inference call and a commit
ReachedPrompt == TurnOver /\ active # <<>> /\ interruptor = 0

\* every actor the router matched is blocked at the session tier
AllBlocked ==
    \A k \in 1..Len(result.actors) :
        TierCheck(result.actors[k], tier, specs).confidence = "blocked"

\* the flow of the turn after the collapse of a debate that lost an actor
FinalFlow == IF flow_type # "none" THEN flow_type ELSE result.flow_type

\* C3: every call of turn() ends either Terminal-no-LLM, with no inference
\* call made, or Committed, with an inference call made and one transcript
\* entry appended.
C3_EndsTerminalOrCommitted ==
    TurnOver =>
        \/ /\ ret.kind = "returned"
           /\ ret.exit \in {"terminal_flow", "all_blocked"}
           /\ llm_calls = 0
        \/ /\ ret.kind = "returned"
           /\ ret.exit = "committed"
           /\ llm_calls >= 1
           /\ Len(transcript) = Len(turn0.transcript) + 1

\* C4: a debate turn that brings the counter to 5 or more returns one reply of
\* an interrupt persona and leaves the counter at 0.
C4_CounterAtFiveInterrupts ==
    (TurnOver /\ flow_type = "debate" /\ turn0.debate_turn + 1 >= DebateInterruptAt) =>
        /\ ret.kind = "returned"
        /\ ret.exit = "interrupt"
        /\ interruptor # 0
        /\ llm_calls = 1
        /\ debate_turn = 0

\* C5: after a turn whose flow is not debate the debate-turn counter is 0.
C5_NonDebateTurnResetsCounter ==
    (TurnOver /\ FinalFlow # "debate") => debate_turn = 0

C9_TerminalTurnLeavesNoTrace ==
    (TurnOver /\ (result.flow_type \in TerminalFlows \/ AllBlocked)) =>
        /\ ret.kind = "returned"
        /\ ret.value =
              IF result.flow_type \in TerminalFlows
              THEN <<StageDirection(result.stage_note)>>
              ELSE [k \in 1..Len(result.actors) |->
                      RefusalLine(TierCheck(result.actors[k], tier, specs), specs)]
        /\ fetches = <<>>
        /\ llm_calls = 0
        /\ history = turn0.history
        /\ ledger = turn0.ledger
        /\ transcript = turn0.transcript

\* C9 witness: a turn ended with the refusal lines of two blocked personas
C9_Witness ==
    /\ TurnOver
    /\ result.flow_type \notin TerminalFlows
    /\ Len(result.actors) = 2
    /\ AllBlocked
    /\ Len(ret.value) = 2

\* C10 as stated: a turn with two or more explicit matches ends with the
\* disambiguation note and makes no inference call.
C10_AmbiguousEndsWithNote ==
    (TurnOver /\ result.flow_type = "ambiguous") =>
        /\ llm_calls = 0
        /\ ret.kind = "returned"
        /\ ret.value = <<StageDirection(result.stage_note)>>

\* C10 amended: a turn with two or more explicit matches is not ended by the
\* router: the note is not its output, every matched persona is gated, and
\* unless all of them are blocked the remaining ones have their fragments
\* fetched for the prompt.
C10_AmbiguousGoesOnToGate ==
    (TurnOver /\ result.flow_type = "ambiguous") =>
        /\ Len(result.actors) >= 2
        /\ ret.value # <<StageDirection(result.stage_note)>>
        /\ ret.exit # "terminal_flow"
        /\ Len(active) + Len(output_lines) = Len(result.actors)
        /\ IF AllBlocked
           THEN ret.exit = "all_blocked" /\ fetches = <<>>
           ELSE /\ Len(fetches) = Len(active)
                /\ \A k \in 1..Len(fetches) :
                      /\ fetches[k].actor = active[k].actor.spec
                      /\ fetches[k].confidence # "blocked"

\* C10 witness: two personas named Kim matched, both passed the gate and both
\* had their fragments fetched
C10_Witness ==
    /\ TurnOver
    /\ result.flow_type = "ambiguous"
    /\ Len(fetches) = 2

----------------------------------------------------------------------------
(* identify_actor: what the router returns *)

\* identify_actor has returned in the turn in progress
Routed == result # NoResultYet

\* the name words of an actor, lowercased
NameWords(spec) ==
    {Lower(spec.first_name), Lower(spec.family_name), Lower(spec.nickname)} \ {<<>>}

\* the actors one of whose name words is a word of the query
Named ==
    { i \in 1..Len(specs) :
        NameWords(specs[i]) \cap Range(QueryTokens(query.text)) # {} }

\* the actors with domain keywords whose score is at least 0.3
Candidates ==
    { i \in 1..Len(specs) : specs[i].has_keywords /\ query.sim[i] >= SupportThreshold }

ReturnedActors == { result.actors[k].spec : k \in 1..Len(result.actors) }

\* C11: the router returns at most two personas, and no more than two are
\* active or have their fragments fetched in any turn.
C11_AtMostTwoPersonas ==
    /\ Len(result.actors) <= 2
    /\ Len(active) <= 2
    /\ Len(fetches) <= 2

\* C11 witness of the failure: three personas named in one query all pass the
\* gate and all have fragments fetched
C11_Witness ==
    /\ result.flow_type = "ambiguous"
    /\ Len(result.actors) = 3
    /\ Len(fetches) = 3

\* C12: when name words of the query name at least one persona, one named
\* persona gives flow standard with that persona as main, and two or more give
\* flow ambiguous with exactly the named personas in registry order.
C12_ExplicitRouting ==
    (Routed /\ Named # {}) =>
        /\ ReturnedActors = Named
        /\ Len(result.actors) = Cardinality(Named)
        /\ \A k \in 1..Len(result.actors) : \A l \in 1..Len(result.actors) :
              k < l => result.actors[k].spec < result.actors[l].spec
        /\ \A k \in 1..Len(result.actors) : result.actors[k].role = "main"
        /\ result.flow_type = IF Cardinality(Named) = 1 THEN "standard" ELSE "ambiguous"

\* C12 witness: a query addressing one persona by nickname, with punctuation,
\* was routed to that persona
C12_Witness ==
    /\ Routed
    /\ Cardinality(Named) = 1
    /\ \E i \in Named : Lower(specs[i].nickname) \in Range(QueryTokens(query.text))
    /\ result.flow_type = "standard"

\* C13: with no persona named, the candidates scoring at least 0.3 decide the
\* flow: none gives too_vague, three or more give too_broad with no persona,
\* one gives standard, two give debate unless exactly one of them scores 0.7
\* or more, which gives standard with that main first.
C13_ImplicitRouting ==
    (Routed /\ Named = {}) =>
        LET n     == Cardinality(Candidates)
            mains == { i \in Candidates : query.sim[i] >= MainThreshold }
        IN  /\ n = 0 => result.flow_type = "too_vague" /\ result.actors = <<>>
            /\ n >= 3 => result.flow_type = "too_broad" /\ result.actors = <<>>
            /\ n = 1 => /\ result.flow_type = "standard"
                        /\ Len(result.actors) = 1
                        /\ ReturnedActors = Candidates
            /\ n = 2 => /\ Len(result.actors) = 2
                        /\ ReturnedActors = Candidates
                        /\ IF Cardinality(mains) = 1
                           THEN /\ result.flow_type = "standard"
                                /\ result.actors[1].spec \in mains
                                /\ result.actors[1].role = "main"
                                /\ result.actors[2].role = "support"
                           ELSE result.flow_type = "debate"

\* C13 witness: a main and a support, the main later in the registry, routed
\* as standard with the main first
C13_Witness ==
    /\ Routed /\ Named = {}
    /\ Cardinality(Candidates) = 2
    /\ result.flow_type = "standard"
    /\ result.actors[1].spec > result.actors[2].spec

----------------------------------------------------------------------------
(* tier_check: the gate *)

\* the highest tier for which the actor has a scope, 1 when it has none
HighestScope(spec) ==
    LET scoped == { t \in 1..3 : spec.scope[t] }
    IN  IF scoped = {} THEN 1 ELSE CHOOSE t \in scoped : \A u \in scoped : u <= t

Archival(spec) == Lower(spec.first_name) = <<"c", "o", "d", "e", "x">>

\* C14: at the session's tier, every persona other than the archival one is
\* full when tier - max_tier <= 0, hedged when it is 1, and blocked with a
\* non-empty refusal text when it is 2 or more; the archival persona is full.
C14_GateByTierGap ==
    \A i \in 1..Len(specs) :
        LET r   == TierCheck([spec |-> i, role |-> "main", similarity |-> NoSimilarity],
                             tier, specs)
            gap == tier - HighestScope(specs[i])
        IN  IF Archival(specs[i]) THEN r.confidence = "full"
            ELSE /\ gap <= 0 => r.confidence = "full"
                 /\ gap = 1 => r.confidence = "hedged"
                 /\ gap >= 2 => /\ r.confidence = "blocked"
                                /\ Strip(r.error_message) # <<>>

\* C14 witness: at tier 3 the gate blocked a persona with no scope at all and
\* a blank configured refusal, and the turn carries its refusal line
C14_Witness ==
    /\ tier = 3
    /\ pc \notin {"idle", "identify_actor", "tier_check"}
    /\ \E k \in 1..Len(result.actors) :
          LET sp == specs[result.actors[k].spec]
          IN  /\ \A t \in 1..3 : ~ sp.scope[t]
              /\ ~ Archival(sp)
              /\ Strip(sp.error1) = <<>>
              /\ \E l \in 1..Len(output_lines) :
                    output_lines[l] =
                        RefusalLine(TierCheck(result.actors[k], tier, specs), specs)

\* the matched actors the gate blocks at the session tier
BlockedActors ==
    { k \in 1..Len(result.actors) :
        TierCheck(result.actors[k], tier, specs).confidence = "blocked" }

\* a turn the router classified as debate in which one of the two is blocked
DebateLostOne ==
    /\ result.flow_type = "debate"
    /\ Len(result.actors) = 2
    /\ Cardinality(BlockedActors) = 1

\* C15: a debate in which exactly one persona is blocked is processed as
\* standard flow: the counter is 0 and not incremented, the refusal line of
\* the blocked persona is in the output, and one inference call is made for
\* the remaining persona alone.
C15_CollapsedDebateRunsAsStandard ==
    (TurnOver /\ DebateLostOne) =>
        /\ flow_type = "standard"
        /\ debate_turn = 0
        /\ Len(fetches) = 1
        /\ ret.kind = "returned"
        /\ \E k \in BlockedActors :
              RefusalLine(TierCheck(result.actors[k], tier, specs), specs)
                  \in Range(ret.value)
        /\ llm_calls = 1

\* C15 witness of the failure: the collapsed debate reset the counter that an
\* earlier debate turn had raised, fetched for the one persona left, and ended
\* with an exception
C15_Witness ==
    /\ TurnOver /\ DebateLostOne
    /\ flow_type = "standard"
    /\ turn0.debate_turn > 0
    /\ debate_turn = 0
    /\ Len(fetches) = 1
    /\ ret.kind = "raised"

----------------------------------------------------------------------------
(* parse_response called on any raw output *)

RawBodies ==
    { <<>>, <<Space>>, <<Newline>>, <<"h", "i">>, <<Space, "h", "i", Newline>>,
      <<Space>> \o UPDATE \o <<Space, "a">>,
      DELETE \o <<Space, "a">> }

RawTags == { <<>>, <<TagThought>>, <<TagAction>>, <<TagChat>>, <<"[chat]">> }

\* raw outputs: empty, blank, untagged, partly tagged and fully tagged
RawOutputs ==
    { pre \o t1 \o b1 \o t2 \o b2 :
        pre \in RawBodies, t1 \in RawTags, b1 \in RawBodies,
        t2 \in RawTags, b2 \in RawBodies }

\* parse_response is handed a result holding this raw output
ParseCall(raw) ==
    /\ pc = "idle"
    /\ llm_result' = [raw |-> raw, flow_type |-> "standard", success |-> TRUE,
                      error |-> "none"]
    /\ parsed' = NoParsed
    /\ pc' = "parse_response"
    /\ UNCHANGED <<ledgerVars, sessionVars, query, backend, result, active, output_lines,
                   flow_type, interruptor, fetches, llm_calls, ret, turn0, action_result>>

ParseInit ==
    /\ ledger = EmptyLog
    /\ ValidateIdle
    /\ specs = RosterWith(<<0, 2, 1, 0, 0>>, <<FALSE, FALSE, TRUE, FALSE, FALSE>>)
    /\ tier = 1
    /\ history = <<>>
    /\ debate_turn = 0
    /\ transcript = <<>>
    /\ log_file = <<>>
    /\ PromptIdle
    /\ backend = "ok"
    /\ TurnIdle

NextParse ==
    \/ \E raw \in RawOutputs : ParseCall(raw)
    \/ StageParse

SpecParse == ParseInit /\ [][NextParse]_vars

\* parse_response has returned
Parsed == pc = "validate_action"

RecognizedTags ==
    {"[THOUGHT]", "[ACTION]", "[CHAT]", "[thought]", "[action]", "[chat]"}

Untagged(raw) == \A i \in 1..Len(raw) : raw[i] \notin RecognizedTags

FixedFallback == <<"[The council is silent. Something has gone wrong.]">>

\* C16: whatever the raw output, the reply text parse_response returns is not
\* empty.
C16_ChatNeverEmpty ==
    Parsed => /\ parsed.chat # <<>>
              /\ parsed.chat # NoneText

\* C16 witness: an output whose [CHAT] block is blank was given the fallback
C16_Witness ==
    /\ Parsed
    /\ \E i \in 1..Len(llm_result.raw) : llm_result.raw[i] = TagChat
    /\ parsed.chat = FixedFallback
    /\ parsed.fallback_used

----------------------------------------------------------------------------
(* Decision ledger: denied rulings, reads, unknown verbs, growth *)

DeniedRecord == [executed |-> FALSE, ruling |-> "denied", rationale |-> TRUE]
FetchRecord  == [executed |-> TRUE, ruling |-> "fetch", rationale |-> FALSE]

\* the normalized form of an action as written
Normalized(action) == Strip(Lower(action))

\* C18: a write-type call whose normalized key is recorded as denied returns
\* denied, not executed, with a rationale, runs no update and leaves the
\* ledger as it is, each time it is made.
C18_DeniedShortCircuits ==
    [][ (vpc[1] = "load" /\ Normalized(vaction[1]) \in DOMAIN ledger
            /\ ledger[Normalized(vaction[1])] = "denied")
        => /\ ledger' = ledger
           /\ execLog' = execLog
           /\ vpc'[1] = "idle"
           /\ vresult'[1] = DeniedRecord ]_vars

\* C18 witness: the same denied action, written in two ways, was refused
\* twice and the update never ran
C18_Witness ==
    /\ vpc[1] = "idle"
    /\ \E p \in SameKeyPairs :
          /\ vhist[1][p[1]].action # vhist[1][p[2]].action
          /\ vhist[1][p[1]].result = DeniedRecord
          /\ vhist[1][p[2]].result = DeniedRecord
          /\ UpdateRuns(vhist[1][p[1]].key) = 0
          /\ ledger[vhist[1][p[1]].key] = "denied"

\* C19: a call with a FETCH action or with an unrecognized verb never changes
\* the ledger; the FETCH returns executed with ruling fetch, the unrecognized
\* verb returns not executed with ruling denied.
C19_ReadAndUnknownLeaveLedger ==
    [][ (vpc[1] = "idle" /\ Len(vhist'[1]) = Len(vhist[1]) + 1)
        => LET call == vhist'[1][Len(vhist'[1])]
           IN  /\ call.verb # UPDATE
               /\ ledger' = ledger
               /\ vresult'[1] = call.result
               /\ call.result = IF call.verb = FETCH THEN FetchRecord ELSE DeniedRecord ]_vars

\* C19 witness: a FETCH and a call with another verb have both returned and
\* the ledger, empty at the start, is still empty
C19_Witness ==
    /\ vpc[1] = "idle"
    /\ Len(vhist[1]) = 2
    /\ vhist[1][1].verb = FETCH /\ vhist[1][1].result = FetchRecord
    /\ vhist[1][2].verb = DELETE /\ vhist[1][2].result = DeniedRecord
    /\ DOMAIN ledger = {}

\* C20: validate_action calls made one after another only add to the ledger:
\* no key is removed, no stored ruling changes, keys are normalized, and a
\* call whose normalized key is already recorded writes nothing.
C20_LedgerOnlyGrows ==
    [][ /\ \A k \in DOMAIN ledger : k \in DOMAIN ledger' /\ ledger'[k] = ledger[k]
        /\ \A k \in DOMAIN ledger' : k = Normalized(k)
        /\ Cardinality(DOMAIN ledger') <= Cardinality(DOMAIN ledger) + 1
        /\ \A s \in Sessions :
              (vpc[s] = "load" /\ vpc'[s] # "load"
                    /\ Normalized(vaction[s]) \in DOMAIN ledger)
                 => ledger' = ledger ]_vars

\* C20 witness: an action allowed and recorded, then issued again in another
\* spelling, left one entry in a ledger that was empty
C20_Witness ==
    /\ vpc[1] = "idle"
    /\ Cardinality(DOMAIN ledger) = 1
    /\ \E p \in SameKeyPairs :
          /\ vhist[1][p[1]].action # vhist[1][p[2]].action
          /\ vhist[1][p[2]].result.ruling = "allowed"
          /\ ledger = LogPut(EmptyLog, Normalized(vhist[1][p[2]].action), "allowed")

----------------------------------------------------------------------------
(* commit_log called turn after turn for one session *)

CommitQueries == { <<"g", "o", "?">>, <<TurnEndMarker>> }

CommitChats ==
    { <<"h", "i">>, <<"h", "i", Newline, TurnEndMarker, Newline, "h", "o">> }

\* the contexts handed to commit_log
CommitContexts ==
    { [tier |-> 1, flow_type |-> "standard", speaker |-> TaoName, query |-> q,
       parsed |-> [thought |-> th, action |-> a[1], chat |-> c,
                   action_valid |-> a[1] # NoneText, fallback_used |-> FALSE],
       action_result |-> a[2]] :
        q \in CommitQueries, c \in CommitChats, th \in {NoneText, <<"t">>},
        a \in { <<NoneText, NoResult>>,
                <<UPDATE \o <<Space, "a">>, UpdateResultOf>> } }

\* commit_log, the write succeeding
CommitLogWrites(ctx) ==
    /\ pc \in {"idle", "done"}
    /\ Len(transcript) < MaxTurns
    /\ transcript' = Append(transcript, FormatTurn(ctx))
    /\ log_file' = AppendToFile(log_file, FormatTurnText(ctx))
    /\ ret' = [kind |-> "returned", exit |-> "committed", value |-> <<>>]
    /\ pc' = "done"
    /\ UNCHANGED <<ledgerVars, specs, tier, history, debate_turn, promptVars, query,
                   backend, result, active, output_lines, flow_type, interruptor, fetches,
                   llm_calls, turn0, stageVars>>

\* commit_log, the write failing before anything is written: OSError
CommitLogRaises(ctx) ==
    /\ pc \in {"idle", "done"}
    /\ Len(transcript) < MaxTurns
    /\ ret' = [kind |-> "raised", exit |-> "OSError", value |-> <<>>]
    /\ pc' = "done"
    /\ UNCHANGED <<ledgerVars, sessionVars, query, backend, result, active, output_lines,
                   flow_type, interruptor, fetches, llm_calls, turn0, stageVars>>

NextCommit ==
    \/ \E ctx \in CommitContexts : CommitLogWrites(ctx)
    \/ \E ctx \in CommitContexts : CommitLogRaises(ctx)

SpecCommit == ParseInit /\ [][NextCommit]_vars

\* the occurrences of the turn-end marker in a text
MarkerCount(text) == Cardinality({ i \in 1..Len(text) : text[i] = TurnEndMarker })

\* the text of the blocks, one after another
RECURSIVE BlocksText(_)
BlocksText(blocks) ==
    IF blocks = <<>> THEN <<>>
    ELSE LET b == Head(blocks)
         IN  <<"=== SESSION id | TIER ", <<"1", "2", "3">>[b.session_tier], " | ",
               FlowUpper(b.flow_type), " ===", Newline, Newline, "USER", Newline>>
             \o b.query \o <<Newline, Newline>>
             \o (IF b.thought # <<>>
                 THEN <<"[THOUGHT]", Space>> \o b.thought \o <<Newline, Newline>> ELSE <<>>)
             \o (IF b.action # <<>>
                 THEN <<"[ACTION]", Space>> \o b.action \o <<Newline, Newline>> ELSE <<>>)
             \o b.speaker \o <<Newline>> \o b.chat
             \o <<Newline, Newline, TurnEndMarker, Newline>>
             \o BlocksText(Tail(blocks))

\* no query, reasoning or reply of a committed block holds the marker itself
MarkerFree(blocks) ==
    \A i \in 1..Len(blocks) :
        MarkerCount(blocks[i].query \o blocks[i].thought \o blocks[i].chat) = 0

-----------------------------------------------------------------------------
(* prompt_assemble.py: load_system_prompt, _codex_report_or_stage_direction,
   _format_history and prompt_assemble.  turn() never runs the body of
   prompt_assemble (the call itself raises), so the function is applied
   directly, as its unit tests do, on the files and the session's history. *)

\* most warnings counted before the calls stop
MaxWarnings == 1

\* "sep".join(parts)
RECURSIVE JoinBy(_, _)
JoinBy(sep, parts) ==
    IF parts = <<>> THEN <<>>
    ELSE IF Len(parts) = 1 THEN parts[1]
    ELSE parts[1] \o sep \o JoinBy(sep, Tail(parts))

BlankLine == <<Newline, Newline>>

DigitChars == <<"0", "1", "2", "3", "4", "5", "6", "7", "8", "9">>

\* the decimal text of a natural number, as an f-string writes it
RECURSIVE DecimalText(_)
DecimalText(n) ==
    IF n < 10 THEN <<DigitChars[n + 1]>>
    ELSE DecimalText(n \div 10) \o <<DigitChars[(n % 10) + 1]>>

\* hashlib.md5(content.encode()).hexdigest(): one digest per content
Md5(content) == <<"md5:">> \o content

\* a load that remembers no hash
ForgetHash(old, current) == NoHash

\* lines 57-64: _system_hash after the load
RememberedHash(old, current) == current

\* load_system_prompt: the content returned, the hash left in the global,
\* and whether the warning was logged
LoadSystemPrompt(text, hash) ==
    LET content      == Strip(text)
        current_hash == Md5(content)
    IN  [content |-> content,
         hash    |-> RememberedHash(hash, current_hash),
         warned  |-> hash # NoHash /\ hash # current_hash]

\* system_raw.replace("{tier}", str(tier))
ReplaceTier(text, t) ==
    [i \in 1..Len(text) |-> IF text[i] = TierPlaceholder THEN TierText(t) ELSE text[i]]

LineBudgetDefault == 40

\* codex_data.get("report_line_budget", 40)
LineBudget(f) == IF f.budget = 0 THEN LineBudgetDefault ELSE f.budget

\* the newlines of the report, not the lines
NewlineCount(report) == Cardinality({ i \in 1..Len(report) : report[i] = Newline })

\* report.count("\n") + 1
LineCount(report) == Cardinality({ i \in 1..Len(report) : report[i] = Newline }) + 1

NoDataText == <<"[No game state data available. CODEX is silent.]">>

OverBudgetText(line_count, line_budget) ==
    <<"[CODEX REPORT EXCEEDS LINE BUDGET (">> \o DecimalText(line_count)
    \o <<" lines > ">> \o DecimalText(line_budget)
    \o <<")]", Newline,
         "Generate a single in-character stage direction conveying information overload.",
         Newline, "Tone reference (do not reproduce these exactly):", Newline,
         "[CODEX floods the room with figures. Lin is already three pages ahead. Everyone else has stopped pretending.]",
         Newline,
         "[The report continues. It has been continuing for some time. Wale has found something else to look at.]",
         Newline,
         "[CODEX appends a seventh appendix. The council's attention has quietly left the building.]">>

\* _codex_report_or_stage_direction
CodexReportOrStageDirection(f) ==
    LET line_budget == LineBudget(f)
        report      == f.gamestate
        line_count  == LineCount(report)
    IN  IF report = <<>> THEN NoDataText
        ELSE IF line_count <= line_budget THEN report
        ELSE OverBudgetText(line_count, line_budget)

\* _format_history
FormatHistory(h) ==
    JoinBy(BlankLine,
           [i \in 1..Len(h) |->
               (IF h[i].role = "advisor" THEN Upper(h[i].speaker) ELSE <<"U", "S", "E", "R">>)
               \o <<":", Space>> \o h[i].content])

\* FetchResult.assembled
Assembled(fetch) == JoinBy(BlankLine, fetch.fragments)

OutputInstruction ==
    <<"IMPORTANT: Your entire response must use ONLY these tags:", Newline,
      "[THOUGHT] your reasoning", Newline, "[CHAT] in-character response", Newline,
      "Do NOT write anything outside these tags.">>

AdvisorHeader == "## ADVISOR CONTEXT"
GameStateHeader == "## GAME STATE"
HistoryHeader == "## RECENT HISTORY"
QueryHeader == "## QUERY"
RespondNow == "Respond now using [THOUGHT] and [CHAT] tags only."

\* lines 174-178: the game state section, empty unless CODEX was fetched
ContextSection(fetch_results, f) ==
    IF \E k \in 1..Len(fetch_results) : IsCodex(specs[fetch_results[k].actor])
    THEN CodexReportOrStageDirection(f)
    ELSE <<>>

\* lines 168-195: the user turn
UserTurn(fetch_results, q, f, h) ==
    LET actor_section ==
            JoinBy(<<Newline, Newline, "-", "-", "-", Newline, Newline>>,
                   [k \in 1..Len(fetch_results) |-> Assembled(fetch_results[k])])
        context_section == ContextSection(fetch_results, f)
        history_section == FormatHistory(h)
        Section(header, body) ==
            IF body # <<>> THEN << <<header>> \o BlankLine \o body >> ELSE <<>>
    IN  JoinBy(BlankLine,
               <<OutputInstruction>>
               \o Section(AdvisorHeader, actor_section)
               \o Section(GameStateHeader, context_section)
               \o Section(HistoryHeader, history_section)
               \o << <<QueryHeader>> \o BlankLine \o q >>
               \o << <<RespondNow>> >>)

\* prompt_assemble: the AssembledPrompt
PromptAssemble(fetch_results, q, f, h, t, hash) ==
    [system |-> ReplaceTier(LoadSystemPrompt(f.system, hash).content, t),
     user   |-> UserTurn(fetch_results, q, f, h)]

SystemV2 == <<"You advise the council, briefly. Campaign tier: ", TierPlaceholder, ".">>

\* system.txt: two versions, and the first one with a final newline
SystemTexts == { SystemV1, SystemV1 \o <<Newline>>, SystemV2 }

\* a report of n lines, none for n = 0
ReportOf(n) == JoinBy(<<Newline>>, [i \in 1..n |-> <<"Nations: line">>])

ReportLines == {0, 2, 3, 40, 41}

BudgetKeys == {0, 2}

FileStates ==
    { Files(s, ReportOf(n), b) : s \in SystemTexts, n \in ReportLines, b \in BudgetKeys }

\* fetch results of the roster's actors: CODEX is the first actor
FetchOf(spec, fragments) == [actor |-> spec, fragments |-> fragments]

FetchInputs ==
    { << FetchOf(3, << <<"Kim speaks plainly.">>, <<"Kim avoids numbers.">> >>) >>,
      << FetchOf(3, <<>>) >>,
      << FetchOf(1, << <<"CODEX reports.">> >>) >>,
      << FetchOf(2, << <<"Jonny jokes.">> >>), FetchOf(1, << <<"CODEX reports.">> >>) >>,
      << FetchOf(2, << <<"Jonny jokes.">> >>), FetchOf(3, << <<"Kim speaks plainly.">> >>) >> }

PromptQueries == { <<"w", "h", "y", "?">>, <<"s", "t", "a", "t", "u", "s">> }

Histories ==
    { <<>>,
      << [role |-> "user", speaker |-> <<"U", "s", "e", "r">>, content |-> <<"h", "i">>],
         [role |-> "advisor", speaker |-> <<"J", "u", "n", Space, "K", "i", "m">>,
          content |-> <<"y", "e", "s">>] >> }

\* a file is written between two calls
FilesEdit(f) ==
    /\ pc = "idle"
    /\ f # files
    /\ files' = f
    /\ UNCHANGED <<ledgerVars, specs, tier, history, debate_turn, transcript, log_file,
                   system_hash, system_seen, warnings, prompt, turnVars>>

\* prompt_assemble(fetch_results, query, ..., history, tier)
PromptAssembleCall(fetch_results, q) ==
    LET load == LoadSystemPrompt(files.system, system_hash)
    IN  /\ pc = "idle"
        /\ warnings < MaxWarnings
        /\ fetches' = fetch_results
        /\ query' = [text |-> q, sim |-> NoScores]
        /\ system_hash' = load.hash
        /\ system_seen' = files.system
        /\ warnings' = warnings + (IF load.warned THEN 1 ELSE 0)
        /\ prompt' = PromptAssemble(fetch_results, q, files, history, tier, system_hash)
        /\ pc' = "assembled"
        /\ UNCHANGED <<ledgerVars, specs, tier, history, debate_turn, transcript, log_file,
                       files, backend, result, active, output_lines, flow_type, interruptor,
                       llm_calls, ret, turn0, stageVars>>

\* the caller takes the AssembledPrompt
PromptReturn ==
    /\ pc = "assembled"
    /\ pc' = "idle"
    /\ UNCHANGED <<ledgerVars, sessionVars, query, backend, result, active, output_lines,
                   flow_type, interruptor, fetches, llm_calls, ret, turn0, stageVars>>

PromptInit ==
    /\ ledger = EmptyLog
    /\ ValidateIdle
    /\ specs = RosterWith(<<0, 2, 1, 0, 0>>, <<FALSE, FALSE, TRUE, FALSE, FALSE>>)
    /\ tier \in {1, 2}
    /\ history \in Histories
    /\ debate_turn = 0
    /\ transcript = <<>>
    /\ log_file = <<>>
    /\ files \in FileStates
    /\ system_hash = NoHash
    /\ system_seen = <<>>
    /\ warnings = 0
    /\ prompt = NoPrompt
    /\ backend = "ok"
    /\ TurnIdle

NextPrompt ==
    \/ \E f \in FileStates : FilesEdit(f)
    \/ \E fr \in FetchInputs, q \in PromptQueries : PromptAssembleCall(fr, q)
    \/ PromptReturn

SpecPrompt == PromptInit /\ [][NextPrompt]_vars

\* the text ends with the given text
EndsWith(text, tail) ==
    /\ Len(tail) <= Len(text)
    /\ SubSeq(text, Len(text) - Len(tail) + 1, Len(text)) = tail

\* the first position of a piece in a text, 0 when it is not there
PositionOf(piece, text) ==
    IF \E i \in 1..Len(text) : text[i] = piece
    THEN CHOOSE i \in 1..Len(text) : text[i] = piece /\ \A j \in 1..(i - 1) : text[j] # piece
    ELSE 0

\* the headers of a text appear in the order of the list, those present
InOrder(headers, text) ==
    \A a, b \in 1..Len(headers) :
        (a < b /\ PositionOf(headers[a], text) > 0 /\ PositionOf(headers[b], text) > 0)
            => PositionOf(headers[a], text) < PositionOf(headers[b], text)

SuffixHeaders ==
    <<OutputInstruction[1], AdvisorHeader, GameStateHeader, HistoryHeader, QueryHeader>>

\* C22: in every assembled prompt the suffix sections come in the order
\* output instruction, persona fragments, world state, history, query, and the
\* suffix ends with the text of the query.
C22_QueryIsLast ==
    pc = "assembled" =>
        /\ InOrder(SuffixHeaders, prompt.user)
        /\ EndsWith(prompt.user, query.text)

\* the sections are in order, and a closing reminder follows the query
C22_ReminderIsLast ==
    pc = "assembled" =>
        /\ InOrder(SuffixHeaders, prompt.user)
        /\ EndsWith(prompt.user, <<QueryHeader>> \o BlankLine \o query.text
                                  \o BlankLine \o <<RespondNow>>)

\* a prompt with fragments, world state and history has been assembled
C22_Witness ==
    /\ pc = "assembled"
    /\ PositionOf(AdvisorHeader, prompt.user) > 0
    /\ PositionOf(GameStateHeader, prompt.user) > 0
    /\ PositionOf(HistoryHeader, prompt.user) > 0
    /\ ~EndsWith(prompt.user, query.text)

\* the piece occurs in the text
IsInfix(piece, text) ==
    \E i \in 1..(Len(text) - Len(piece) + 1) : SubSeq(text, i, i + Len(piece) - 1) = piece

\* the archival persona is among the fetched personas of the call
CodexFetched == \E k \in 1..Len(fetches) : fetches[k].actor = 1

\* the game state section of the prompt holds exactly this body
GameStateIs(body) ==
    IsInfix(BlankLine \o <<GameStateHeader>> \o BlankLine \o body \o BlankLine
            \o <<IF history = <<>> THEN QueryHeader ELSE HistoryHeader>>, prompt.user)

LoadsAgain == pc = "idle" /\ pc' = "assembled" /\ prompt # NoPrompt

-----------------------------------------------------------------------------
(* The debate interrupt, lines 144-165 of turn(), taken past the call of
   prompt_assemble at lines 156-160 (which raises in turn() as written,
   TurnInterrupt): the request of the interruptor and its reply. *)

\* DECISION_PROMPT; the hyphen stands for the dash U+2014 of the source
DecisionPrompt == "- your decision."

\* display, for the debate_interrupt flow
DisplayInterrupt(p, speaker) ==
    IF Strip(p.chat) = <<>> THEN <<>>
    ELSE Upper(speaker) \o <<": ">> \o Strip(p.chat) \o BlankLine \o <<DecisionPrompt>>

\* a failed request is made again
RetryAfterFailure(res) == IF res.success THEN "interrupt_parse" ELSE "interrupt_llm_call"

\* lines 161-162: whatever llm_call returns, parse_response is next
AfterInterruptRequest(res) == "interrupt_parse"

\* lines 113-160: a debate of two actors that are not blocked arrives with the
\* counter at 4 or more, and _select_interruptor returns an actor, whose
\* fragments are fetched at full confidence
StageInterruptEnter(q) ==
    LET r   == IdentifyActor(q, specs)
        NotBlocked(tr) == tr.confidence # "blocked"
        act == Select(TierCheckAll(r.actors, tier, specs), NotBlocked)
        pool == InterruptPool(specs, [k \in 1..Len(act) |-> act[k].actor.spec])
    IN  /\ pc \in {"idle", "done"}
        /\ r.flow_type = "debate"
        /\ Len(act) = 2
        /\ debate_turn + 1 >= DebateInterruptAt
        /\ debate_turn < MaxDebateTurn
        /\ pool # {}
        /\ \E i \in pool : interruptor' = i
        /\ fetches' = <<[actor |-> interruptor', confidence |-> "full", others |-> <<>>]>>
        /\ debate_turn' = debate_turn + 1
        /\ pc' = "interrupt_llm_call"
        /\ query' = q
        /\ result' = r
        /\ active' = act
        /\ output_lines' = <<>>
        /\ flow_type' = "debate"
        /\ llm_calls' = 0
        /\ ret' = NoReturn
        /\ llm_result' = NoLLMResult
        /\ parsed' = NoParsed
        /\ action_result' = NoResult
        /\ turn0' = [debate_turn |-> debate_turn, history |-> history,
                     ledger |-> ledger, transcript |-> transcript]
        /\ UNCHANGED <<ledgerVars, specs, tier, history, transcript, log_file, promptVars,
                       backend>>

\* line 161: llm_call(interrupt_prompt, "debate_interrupt")
StageInterruptLlmCall(mode, content) ==
    LET res == LlmCall(mode, IF mode = "empty" THEN <<>> ELSE content, "debate_interrupt")
    IN  /\ pc = "interrupt_llm_call"
        /\ backend' = mode
        /\ llm_result' = res
        /\ llm_calls' = llm_calls + 1
        /\ pc' = AfterInterruptRequest(res)
        /\ UNCHANGED <<ledgerVars, sessionVars, query, result, active, output_lines,
                       flow_type, interruptor, fetches, ret, turn0, parsed, action_result>>

\* lines 162-165: the reply is parsed and displayed, the counter is reset and
\* the turn returns without the request of the debate
StageInterruptReturn ==
    LET p    == ParseResponse(llm_result)
        line == [kind |-> "reply",
                 text |-> DisplayInterrupt(p, specs[interruptor].display_name)]
    IN  /\ pc = "interrupt_parse"
        /\ parsed' = p
        /\ output_lines' = Append(output_lines, line)
        /\ debate_turn' = 0
        /\ ret' = [kind |-> "returned", exit |-> "interrupt",
                   value |-> Append(output_lines, line)]
        /\ pc' = "done"
        /\ UNCHANGED <<ledgerVars, specs, tier, history, transcript, log_file, promptVars,
                       query, backend, result, active, flow_type, interruptor, fetches,
                       llm_calls, turn0, llm_result, action_result>>

\* a session in which four debate turns have passed
InterruptInit ==
    /\ ledger = EmptyLog
    /\ ValidateIdle
    /\ specs \in Rosters
    /\ tier \in 1..3
    /\ history = <<>>
    /\ debate_turn = DebateInterruptAt - 1
    /\ transcript = <<>>
    /\ log_file = <<>>
    /\ PromptIdle
    /\ backend = "ok"
    /\ TurnIdle

NextInterrupt ==
    \/ \E q \in Queries : StageInterruptEnter(q)
    \/ \E mode \in BackendModes, content \in Contents : StageInterruptLlmCall(mode, content)
    \/ StageInterruptReturn

SpecInterrupt == InterruptInit /\ [][NextInterrupt]_vars

\* C24: no turn makes more than one inference request: a timeout, a transport
\* failure or an empty response is not followed by a second request, and a
\* debate interrupt makes its one request in place of the debate request.
C24_AtMostOneRequest ==
    /\ llm_calls <= 1
    /\ (pc \notin {"idle", "llm_call", "interrupt_llm_call"} /\ llm_result # NoLLMResult)
          => llm_calls = 1

\* a turn is over whose one request timed out
C24_Witness ==
    /\ pc = "done"
    /\ ret.exit = "interrupt"
    /\ llm_calls = 1
    /\ ~llm_result.success
    /\ llm_result.error = "timeout"

Debaters == { active[k].actor.spec : k \in 1..Len(active) }

\* the actors the claim lets interrupt the running debate
MayInterrupt ==
    { i \in 1..Len(specs) :
        specs[i].weight > 0 /\ (i \in Debaters => specs[i].can_own) }

\* the running turn is a debate whose counter reached the interrupt limit
InterruptDue ==
    /\ pc \in {"interrupt", "fragment_fetch", "prompt_assemble", "done"}
    /\ flow_type = "debate"
    /\ turn0.debate_turn + 1 >= 5

\* C26: the interrupt persona is a roster persona with interrupt weight above
\* 0 and is not one of the debating personas unless its self-interrupt flag is
\* set; when no persona is eligible, none is selected.
C26_InterruptorEligible ==
    InterruptDue =>
        /\ interruptor # 0 => interruptor \in MayInterrupt
        /\ MayInterrupt = {} => interruptor = 0

\* an interruptor was chosen while a debater with a weight was passed over
C26_Witness ==
    /\ InterruptDue
    /\ interruptor # 0
    /\ interruptor \notin Debaters
    /\ \E i \in Debaters : specs[i].weight > 0 /\ ~specs[i].can_own

\* the gate's rating of a roster actor at the session tier
RatedBlocked(i) == TierCheck([spec |-> i], tier, specs).confidence = "blocked"

C29_CounterBelowFive == TurnOver => debate_turn \in 0..4

\* a debate turn is over with the counter at 5 or more and no interruptor
C29_Witness ==
    /\ TurnOver
    /\ flow_type = "debate"
    /\ debate_turn >= 5
    /\ interruptor = 0
    /\ MayInterrupt = {}

-----------------------------------------------------------------------------
(* lines 210-213 of turn(): the history of a session over many committed
   turns, each with its query, its speaker and the reply that was parsed *)

HistoryInputs ==
    { [query |-> <<"w", "h", "y", "?">>, speaker |-> <<"J", "u", "n", Space, "K", "i", "m">>,
       chat |-> <<"y", "e", "s">>],
      [query |-> <<"s", "t", "a", "t", "u", "s">>,
       speaker |-> <<"J", "o", "n", Space, "P", "r", "a", "t", "t">>,
       chat |-> <<"o", "k">>] }

\* the two appends and the cut to the last 20 entries
HistoryUpdate(t) ==
    /\ pc \in {"idle", "done"}
    /\ history' = LastEntries(
            Append(Append(history,
                [role |-> "user", speaker |-> <<"U", "s", "e", "r">>, content |-> t.query]),
                [role |-> "advisor", speaker |-> t.speaker, content |-> t.chat]))
    /\ turn0' = [turn0 EXCEPT !.history = history]
    /\ pc' = "done"
    /\ UNCHANGED <<ledgerVars, specs, tier, debate_turn, transcript, log_file, promptVars,
                   query, backend, result, active, output_lines, flow_type, interruptor,
                   fetches, llm_calls, ret, stageVars>>

NextHistory == \E t \in HistoryInputs : HistoryUpdate(t)

SpecHistory == ParseInit /\ [][NextHistory]_vars

\* C30: in every reachable state the history has even length and alternates
\* user entry, advisor entry, starting with a user entry, each advisor entry
\* directly after the user entry of its own turn, also after the cut to 20.
C30_HistoryAlternates ==
    /\ Len(history) % 2 = 0
    /\ Len(history) <= 20
    /\ \A i \in 1..Len(history) :
          history[i].role = (IF i % 2 = 1 THEN "user" ELSE "advisor")
    /\ \A i \in 1..Len(history) :
          i % 2 = 1 =>
             \E t \in HistoryInputs :
                /\ history[i].content = t.query
                /\ history[i + 1].speaker = t.speaker
                /\ history[i + 1].content = t.chat

\* a turn was added to a history of 20 entries, and the oldest turn dropped
C30_Witness ==
    /\ Len(turn0.history) = 20
    /\ Len(history) = 20
    /\ SubSeq(history, 1, 18) = SubSeq(turn0.history, 3, 20)
    /\ history[1].content # turn0.history[1].content
    /\ history[19].role = "user"

=============================================================================
